---- MODULE Spec2Model ----
(***************************************************************************)
(* Model of c-ast (src/src/main.rs): one depth-first traversal of a parsed *)
(* C translation unit by MyVisitor, which builds the struct type catalog   *)
(* (struct_types) and the value catalog (values) while threading one       *)
(* context slot (cur_struct).                                              *)
(*                                                                         *)
(* The three hooks MyVisitor overrides are the actions.  visit_struct_field*)
(* and visit_init_declarator do not call back into the default walker, so  *)
(* nothing below a field declaration or an init-declarator is visited;     *)
(* visit_struct_type does (main.rs:155), and the walker then calls         *)
(* visit_struct_field once per field declaration of the node, in order.    *)
(***************************************************************************)
EXTENDS Integers, Sequences, FiniteSets, TLC

VARIABLES
    cur_struct,    \* MyVisitor.cur_struct : Option<String>
    struct_types,  \* MyVisitor.struct_types : HashMap<String, MyStructType>
    values,        \* MyVisitor.values : HashMap<(Option<String>, String), MyValue>
    warnings,      \* number of log::warn! records emitted so far
    panic,         \* message of the panic that ended the run, or NoPanic
    node,          \* the node the walker is at: Some(n) from reaching n until its hook returned
    pc,            \* "walk": between nodes; "hook": n's hook is to run; "done": it has returned
    visits         \* number of nodes the walker has reached so far

vars == <<cur_struct, struct_types, values, warnings, panic, node, pc, visits>>

(***************************************************************************)
(* Bounds of the model.                                                    *)
(***************************************************************************)
MaxVisits == 3        \* nodes with a hook in one translation unit
MaxStructVisits == 1  \* the same, for a translation unit drawn from every struct type node
MaxDeclarators == 2   \* declarators in one struct type node, over all its field declarations
MaxItems == 2         \* elements of one top-level initializer list

(***************************************************************************)
(* Option<T>, and the HashMap operations the code uses.                    *)
(***************************************************************************)
None == <<>>
Some(v) == <<v>>

EmptyMap == [k \in {} |-> k]

\* or_insert behaving as HashMap::insert: the new value replaces an existing entry.
or_insert_overwrites(m, k, v) == [x \in DOMAIN m \cup {k} |-> IF x = k THEN v ELSE m[x]]

\* HashMap::entry(k).or_insert(v): the map with k present; an existing entry wins.
or_insert(m, k, v) ==
    IF k \in DOMAIN m THEN m
    ELSE [x \in DOMAIN m \cup {k} |-> IF x = k THEN v ELSE m[x]]

Min(a, b) == IF a <= b THEN a ELSE b

\* All sequences over S of length lo..hi.
SeqsOf(S, lo, hi) == UNION {[1..k -> S] : k \in lo..hi}

(***************************************************************************)
(* The simplified expression (enum MyExpression) and transform.            *)
(***************************************************************************)
Integer(s) == [variant |-> "Integer", s |-> s]
Float(s) == [variant |-> "Float", s |-> s]
String(s) == [variant |-> "String", s |-> s]
StringLiteral(v) == [variant |-> "StringLiteral", v |-> v]
Other(s) == [variant |-> "Other", s |-> s]

\* format!("{:?}", a) of an Expression: the derived Debug rendering, which
\* starts with the variant's name.
DebugText(a) == a.expr \o "(" \o a.name \o ")"

transform(expr) ==
    IF expr.expr = "Constant" THEN
        CASE expr.constant = "Integer" -> Integer(expr.number)
          [] expr.constant = "Float" -> Float(expr.number)
          [] expr.constant = "Character" -> String(expr.text)
    ELSE IF expr.expr = "StringLiteral" THEN StringLiteral(expr.parts)
    ELSE Other(DebugText(expr))

(***************************************************************************)
(* fill: flattens one initializer onto one field name.                     *)
(***************************************************************************)
RECURSIVE fill(_, _, _)
RECURSIVE fill_each(_, _, _)
RECURSIVE fill_shallow_each(_, _, _)

\* fill without the recursion: a list nested inside a nested list is skipped.
fill_shallow_each(acc, fname, ls) ==
    IF ls = <<>> THEN acc
    ELSE LET ini == Head(ls).initializer
         IN  fill_shallow_each(IF ini.init = "Expression"
                               THEN Append(acc, <<fname, transform(ini.e)>>) ELSE acc,
                               fname, Tail(ls))

fill_shallow(acc, fname, ini) ==
    IF ini.init = "Expression" THEN Append(acc, <<fname, transform(ini.e)>>)
    ELSE fill_shallow_each(acc, fname, ini.xs)

\* the loop `for l in ls { fill(acc, fname, &l.node.initializer.node) }`
fill_each(acc, fname, ls) ==
    IF ls = <<>> THEN acc
    ELSE fill_each(fill(acc, fname, Head(ls).initializer), fname, Tail(ls))

fill(acc, fname, ini) ==
    IF ini.init = "Expression" THEN Append(acc, <<fname, transform(ini.e)>>)
    ELSE fill_each(acc, fname, ini.xs)

\* zip pairing the i-th element with the (i+1)-th field.
zip_skips_first_field(xs, fields) ==
    [i \in 1..Min(Len(xs), IF fields = <<>> THEN 0 ELSE Len(fields) - 1) |-> <<xs[i], fields[i + 1]>>]

\* zip pairing a designated element with the field its designator names.
zip_by_designator(xs, fields) ==
    [i \in 1..Min(Len(xs), Len(fields)) |->
        <<xs[i], IF xs[i].designation # <<>> THEN xs[i].designation[1].name ELSE fields[i]>>]

\* xs.into_iter().zip(stype.fields.clone()): pairs up to the shorter length.
zip(xs, fields) == [i \in 1..Min(Len(xs), Len(fields)) |-> <<xs[i], fields[i]>>]

RECURSIVE fill_pairs(_, _)
\* the loop over the zipped pairs in visit_init_declarator
fill_pairs(acc, pairs) ==
    IF pairs = <<>> THEN acc
    ELSE fill_pairs(fill(acc, Head(pairs)[2], Head(pairs)[1].initializer), Tail(pairs))

(***************************************************************************)
(* Catalog entries.                                                        *)
(***************************************************************************)
MyStructType_new(name) == [name |-> name, fields |-> <<>>]

\* new_struct taking its two strings in the other order.
new_struct_swapped(typ, name) ==
    [variant |-> "Struct", typ |-> name, name |-> typ, values |-> <<>>]

new_struct(typ, name) == [variant |-> "Struct", typ |-> typ, name |-> name, values |-> <<>>]

new_scalar(name, value) == [variant |-> "Scalar", name |-> name, value |-> value]

NoPanic == "none"
ExpectedIdentifier == "Expected an identifier but got"
StructTypeNotFound == "Struct type not found"

(***************************************************************************)
(* The syntax tree (lang_c::ast), as far as the hooks read it.             *)
(***************************************************************************)
Tags == {"S", "T"}
FieldNames == {"a", "b", "c"}

\* DeclaratorKind
Identifier(name) == [kind |-> "Identifier", name |-> name]
ParenDeclarator == [kind |-> "Declarator"]

\* StructDeclarator.declarator : Option<Declarator>; None is an unnamed bit-field.
StructDeclarators == {Some(Identifier(f)) : f \in FieldNames} \cup {Some(ParenDeclarator), None}

\* StructField.specifiers holds the field's type; of it the tree keeps the
\* struct type nodes written there (`struct T { int c; } a;`), none for `int a;`.
StructFieldOf(specifiers, ds) ==
    [node |-> "StructField", specifiers |-> specifiers, declarators |-> ds]
StructField(ds) == StructFieldOf(<<>>, ds)

StructType(id, decls) == [node |-> "StructType", identifier |-> id, declarations |-> decls]

InitDeclarator(d, ini) == [node |-> "InitDeclarator", declarator |-> d, initializer |-> ini]

\* Initializer
Expression(e) == [init |-> "Expression", e |-> e]
List(xs) == [init |-> "List", xs |-> xs]

\* InitializerListItem; designation is the list of designators (`.c =`), empty when positional.
Item(designation, ini) == [designation |-> designation, initializer |-> ini]
Member(f) == [designator |-> "Member", name |-> f]

\* Expression
ConstInteger(base, number, suffix) ==
    [expr |-> "Constant", constant |-> "Integer", base |-> base, number |-> number, suffix |-> suffix]
ConstFloat(base, number, suffix) ==
    [expr |-> "Constant", constant |-> "Float", base |-> base, number |-> number, suffix |-> suffix]
ConstCharacter(text) == [expr |-> "Constant", constant |-> "Character", text |-> text]
ExprStringLiteral(parts) == [expr |-> "StringLiteral", parts |-> parts]
ExprIdentifier(name) == [expr |-> "Identifier", name |-> name]
ExprCall(name) == [expr |-> "Call", name |-> name]
\* sizeof(struct T { .. }): an expression that carries a type name, and in it a struct type node.
ExprSizeOfTy(ty) ==
    [expr |-> "SizeOfTy", name |-> IF ty.identifier = None THEN "" ELSE ty.identifier[1], ty |-> ty]

(***************************************************************************)
(* The nodes a translation unit is drawn from.                             *)
(***************************************************************************)
\* Every way to group the declarators ds, in order, into field declarations
\* (`int a, b;` is one field declaration with two declarators).
RECURSIVE Groupings(_)
Groupings(ds) ==
    IF ds = <<>> THEN {<<>>}
    ELSE UNION {{<<StructField(SubSeq(ds, 1, k))>> \o rest :
                    rest \in Groupings(SubSeq(ds, k + 1, Len(ds)))} : k \in 1..Len(ds)}

\* StructType.declarations : Option<Vec<StructDeclaration>>; None is a reference
\* to the type (`struct S x`), Some a definition with its field declarations.
StructDeclarations ==
    {None} \cup {Some(g) : g \in UNION {Groupings(ds) : ds \in SeqsOf(StructDeclarators, 1, MaxDeclarators)}}

StructTypes ==
    {StructType(id, decls) : id \in {None} \cup {Some(t) : t \in Tags}, decls \in StructDeclarations}

\* struct T { int c; }, written inside a field's type or inside an initializer
NestedStructType == StructType(Some("T"), Some(<<StructField(<<Some(Identifier("c"))>>)>>))

\* struct S { int a; int b, c; }   struct S   struct T   struct T { int a; }   struct { int b; }
\* struct S { struct T { int c; } a; }
SampleStructTypes ==
    { StructType(Some("S"), Some(<<StructField(<<Some(Identifier("a"))>>),
                                   StructField(<<Some(Identifier("b")), Some(Identifier("c"))>>)>>)),
      StructType(Some("S"), None),
      StructType(Some("T"), None),
      StructType(Some("T"), Some(<<StructField(<<Some(Identifier("a"))>>)>>)),
      StructType(None, Some(<<StructField(<<Some(Identifier("b"))>>)>>)),
      StructType(Some("S"), Some(<<StructFieldOf(<<NestedStructType>>, <<Some(Identifier("a"))>>)>>)) }

Dec(number) == ConstInteger("Decimal", number, "")

\* 5   0x1Au   3.14f   'x'   "a" "b"   f()
ScalarExprs ==
    { Dec("5"),
      ConstInteger("Hexadecimal", "1A", "u"),
      ConstFloat("Decimal", "3.14", "f"),
      ConstCharacter("'x'"),
      ExprStringLiteral(<<"\"a\"", "\"b\"">>),
      ExprCall("f") }

\* 1   .c = 2   {3, {}, {.a = 4}}
Items ==
    { Item(<<>>, Expression(Dec("1"))),
      Item(<<Member("c")>>, Expression(Dec("2"))),
      Item(<<>>, List(<<Item(<<>>, Expression(Dec("3"))),
                        Item(<<>>, List(<<>>)),
                        Item(<<>>, List(<<Item(<<Member("a")>>, Expression(Dec("4")))>>))>>)) }

\* InitDeclarator.initializer : Option<Initializer>
ScalarInitializers == {None} \cup {Some(Expression(e)) : e \in ScalarExprs}
ListInitializers == {Some(List(xs)) : xs \in SeqsOf(Items, 0, MaxItems)}

\* x with every initializer, y with none or a single expression or
\* sizeof(struct T { int c; }), and a parenthesized declarator such as (*p).
InitDeclarators ==
    {InitDeclarator(Identifier("x"), ini) : ini \in ScalarInitializers \cup ListInitializers}
      \cup {InitDeclarator(Identifier("y"), ini) : ini \in ScalarInitializers}
      \cup {InitDeclarator(Identifier("y"), Some(Expression(ExprSizeOfTy(NestedStructType))))}
      \cup {InitDeclarator(ParenDeclarator, ini) : ini \in {None, Some(Expression(Dec("5")))}}

\* x = 5   x = {1, .c = 2}   (*x)
SampleInitDeclarators ==
    { InitDeclarator(Identifier("x"), Some(Expression(Dec("5")))),
      InitDeclarator(Identifier("x"),
                     Some(List(<<Item(<<>>, Expression(Dec("1"))),
                                 Item(<<Member("c")>>, Expression(Dec("2")))>>))),
      InitDeclarator(ParenDeclarator, None) }

(***************************************************************************)
(* MyVisitor::new and the traversal.                                       *)
(***************************************************************************)
Init ==
    /\ cur_struct = None
    /\ struct_types = EmptyMap
    /\ values = EmptyMap
    /\ warnings = 0
    /\ panic = NoPanic
    /\ node = None
    /\ pc = "walk"
    /\ visits = 0

\* The default walker (lang_c::visit), started by visit_translation_unit,
\* reaches the next node that has a hook.
Walk(n, max) ==
    /\ pc = "walk"
    /\ visits < max
    /\ node' = Some(n)
    /\ pc' = "hook"
    /\ visits' = visits + 1
    /\ UNCHANGED <<cur_struct, struct_types, values, warnings, panic>>

\* The hook has returned; the walker moves on.
Return ==
    /\ pc = "done"
    /\ node' = None
    /\ pc' = "walk"
    /\ UNCHANGED <<cur_struct, struct_types, values, warnings, panic, visits>>

\* push_field keeping fields free of duplicates: a name already recorded is not pushed again.
push_field_once(types, struct_name, y) ==
    LET t == or_insert(types, struct_name, MyStructType_new(struct_name))
    IN  IF \E i \in 1..Len(t[struct_name].fields) : t[struct_name].fields[i] = y
        THEN t
        ELSE [t EXCEPT ![struct_name].fields = Append(@, y)]

\* push_field inserting at the front of fields instead of pushing at the back.
push_field_front(types, struct_name, y) ==
    LET t == or_insert(types, struct_name, MyStructType_new(struct_name))
    IN  [t EXCEPT ![struct_name].fields = <<y>> \o @]

\* self.struct_types.entry(struct_name).or_insert(MyStructType::new(struct_name)).fields.push(y)
push_field(types, struct_name, y) ==
    LET t == or_insert(types, struct_name, MyStructType_new(struct_name))
    IN  [t EXCEPT ![struct_name].fields = Append(@, y)]

RECURSIVE push_declarators(_, _, _)
\* the loop `for declarator in &n.declarators` of visit_struct_field
push_declarators(types, struct_name, ds) ==
    IF ds = <<>> THEN types
    ELSE LET d == Head(ds)
             t == IF d # None /\ d[1].kind = "Identifier"
                  THEN push_field(types, struct_name, d[1].name)
                  ELSE types
         IN  push_declarators(t, struct_name, Tail(ds))

\* visit_struct_field creating the tag's entry before it looks at the declarators.
visit_struct_field_eager(cur, st, n) ==
    IF cur # None
    THEN [types |-> push_declarators(or_insert(st.types, cur[1], MyStructType_new(cur[1])),
                                     cur[1], n.declarators),
          warnings |-> st.warnings]
    ELSE [types |-> st.types, warnings |-> st.warnings + 1]

\* visit_struct_field recording the fields under the empty tag when no tag is
\* active, instead of warning.
visit_struct_field_default_tag(cur, st, n) ==
    [types |-> push_declarators(st.types, IF cur # None THEN cur[1] ELSE "", n.declarators),
     warnings |-> st.warnings]

\* visit_struct_field on field declaration n, from catalog st.types and
\* st.warnings warnings emitted so far.
visit_struct_field(cur, st, n) ==
    IF cur # None
    THEN [types |-> push_declarators(st.types, cur[1], n.declarators), warnings |-> st.warnings]
    ELSE [types |-> st.types, warnings |-> st.warnings + 1]

RECURSIVE walk_struct_type(_, _, _)
\* visit::visit_struct_type: visit_struct_field for each field declaration, in order.
walk_struct_type(cur, st, decls) ==
    IF decls = <<>> THEN st
    ELSE walk_struct_type(cur, visit_struct_field(cur, st, Head(decls)), Tail(decls))

\* The context slot taking the node's identifier as it is: None for an untagged node.
enter_struct_type_clears(cur, n) == n.identifier

\* if let Some(ref id) = n.identifier { self.cur_struct = Some(String::from(&id.node.name)); }
enter_struct_type(cur, n) == IF n.identifier # None THEN Some(n.identifier[1]) ELSE cur

visit_struct_type ==
    /\ pc = "hook"
    /\ panic = NoPanic
    /\ node[1].node = "StructType"
    /\ LET n == node[1]
           cur == enter_struct_type(cur_struct, n)
           st == walk_struct_type(cur, [types |-> struct_types, warnings |-> warnings],
                                  IF n.declarations # None THEN n.declarations[1] ELSE <<>>)
       IN  /\ cur_struct' = cur
           /\ struct_types' = st.types
           /\ warnings' = st.warnings
    /\ pc' = "done"
    /\ UNCHANGED <<values, panic, node, visits>>

\* The arm for another declarator shape ignoring it, as visit_struct_field does.
unexpected_declarator_ignored(vals) == [values |-> vals, panic |-> NoPanic]

\* The arm `x => panic!("Expected an identifier but got {:?}", x)`.
unexpected_declarator(vals) == [values |-> vals, panic |-> ExpectedIdentifier]

\* The arm Initializer::List(xs) treating a list outside every struct tag as
\* an instance of a type that was not found.
init_list_requires_tag(cur, types, vals, name, xs) ==
    IF cur = None THEN [values |-> vals, panic |-> StructTypeNotFound]
    ELSE
        LET key == <<cur, name>>
            inserted == or_insert(vals, key, new_struct(cur[1], name))
        IN  IF inserted[key].variant # "Struct" THEN [values |-> inserted, panic |-> NoPanic]
            ELSE IF cur[1] \in DOMAIN types THEN
                [values |-> [inserted EXCEPT ![key].values = fill_pairs(@, zip(xs, types[cur[1]].fields))],
                 panic |-> NoPanic]
            ELSE [values |-> inserted, panic |-> StructTypeNotFound]

\* The arm Initializer::List(xs) starting every visit from a fresh instance
\* (insert instead of entry().or_insert()).
init_list_replaces(cur, types, vals, name, xs) ==
    IF cur = None THEN [values |-> vals, panic |-> NoPanic]
    ELSE
        LET key == <<cur, name>>
            inserted == or_insert_overwrites(vals, key, new_struct(cur[1], name))
        IN  IF cur[1] \in DOMAIN types THEN
                [values |-> [inserted EXCEPT ![key].values = fill_pairs(@, zip(xs, types[cur[1]].fields))],
                 panic |-> NoPanic]
            ELSE [values |-> inserted, panic |-> StructTypeNotFound]

\* The arm Initializer::List(xs): the values map and the panic it ends with.
init_list(cur, types, vals, name, xs) ==
    IF cur = None THEN [values |-> vals, panic |-> NoPanic]
    ELSE
        LET key == <<cur, name>>
            inserted == or_insert(vals, key, new_struct(cur[1], name))
        IN  IF inserted[key].variant # "Struct" THEN [values |-> inserted, panic |-> NoPanic]
            ELSE IF cur[1] \in DOMAIN types THEN
                [values |-> [inserted EXCEPT ![key].values = fill_pairs(@, zip(xs, types[cur[1]].fields))],
                 panic |-> NoPanic]
            ELSE [values |-> inserted, panic |-> StructTypeNotFound]

\* The arm Initializer::Expression(e) storing with insert: whatever the key held is replaced.
init_expression_replaces(cur, vals, name, e) ==
    [values |-> [k \in DOMAIN vals \cup {<<cur, name>>} |->
                    IF k = <<cur, name>> THEN new_scalar(name, transform(e)) ELSE vals[k]],
     panic |-> NoPanic]

\* The arm Initializer::Expression(e).
init_expression(cur, vals, name, e) ==
    [values |-> or_insert(vals, <<cur, name>>, new_scalar(name, transform(e))), panic |-> NoPanic]

visit_init_declarator ==
    /\ pc = "hook"
    /\ panic = NoPanic
    /\ node[1].node = "InitDeclarator"
    /\ LET n == node[1]
           r == IF n.declarator.kind # "Identifier" THEN unexpected_declarator(values)
                ELSE IF n.initializer = None THEN [values |-> values, panic |-> NoPanic]
                ELSE IF n.initializer[1].init = "List"
                     THEN init_list(cur_struct, struct_types, values, n.declarator.name, n.initializer[1].xs)
                     ELSE init_expression(cur_struct, values, n.declarator.name, n.initializer[1].e)
       IN  /\ values' = r.values
           /\ panic' = r.panic
           /\ pc' = IF r.panic = NoPanic THEN "done" ELSE pc
    /\ UNCHANGED <<cur_struct, struct_types, warnings, node, visits>>

\* A translation unit of a few struct type shapes and every init-declarator.
Next ==
    \/ \E n \in SampleStructTypes \cup InitDeclarators : Walk(n, MaxVisits)
    \/ visit_struct_type
    \/ visit_init_declarator
    \/ Return

Spec == Init /\ [][Next]_vars

\* A translation unit of every struct type node and a few init-declarators.
NextStruct ==
    \/ \E n \in StructTypes \cup SampleInitDeclarators : Walk(n, MaxStructVisits)
    \/ visit_struct_type
    \/ visit_init_declarator
    \/ Return

SpecStruct == Init /\ [][NextStruct]_vars

(***************************************************************************)
(* What the claims speak of.                                               *)
(***************************************************************************)
\* The hook of a struct type node / an init-declarator is about to run.
AtStructType == pc = "hook" /\ panic = NoPanic /\ node[1].node = "StructType"
AtInitDeclarator == pc = "hook" /\ panic = NoPanic /\ node[1].node = "InitDeclarator"

\* The hook of such a node has returned.
DoneStructType == pc = "done" /\ node[1].node = "StructType"
DoneInitDeclarator == pc = "done" /\ node[1].node = "InitDeclarator"

RECURSIVE Concat(_)
Concat(ss) == IF ss = <<>> THEN <<>> ELSE Head(ss) \o Concat(Tail(ss))

IsSimpleIdentifier(d) == d # None /\ d[1].kind = "Identifier"

\* The field declarations of struct type node n, and the names of its
\* simple-identifier field declarators f1..fn, in source order.
FieldDeclarations(n) == IF n.declarations = None THEN <<>> ELSE n.declarations[1]
SimpleFieldNames(n) ==
    LET ds == Concat([i \in 1..Len(FieldDeclarations(n)) |-> FieldDeclarations(n)[i].declarators])
        ids == SelectSeq(ds, IsSimpleIdentifier)
    IN  [i \in 1..Len(ids) |-> ids[i][1].name]

\* C1: from empty catalogs, entering a tagged struct type S and visiting its
\* simple-identifier field declarators f1..fn (n >= 1) in order leaves the catalog
\* with the single entry S, whose fields are exactly <<f1, ..., fn>>.
C1_FieldsInDeclarationOrder ==
    [][ (AtStructType /\ node[1].identifier # None
            /\ struct_types = EmptyMap /\ values = EmptyMap
            /\ SimpleFieldNames(node[1]) # <<>>)
        => /\ DOMAIN struct_types' = {node[1].identifier[1]}
           /\ struct_types'[node[1].identifier[1]].fields = SimpleFieldNames(node[1]) ]_vars

\* struct S { <a>, <b> } with two distinct names was entered first and S holds them in order.
C1_Witness ==
    /\ DoneStructType
    /\ visits = 1
    /\ node[1].identifier = Some("S")
    /\ SimpleFieldNames(node[1]) = <<"b", "a">>
    /\ DOMAIN struct_types = {"S"}
    /\ struct_types["S"].fields = <<"b", "a">>

IsListInit(n) ==
    /\ n.declarator.kind = "Identifier"
    /\ n.initializer # None
    /\ n.initializer[1].init = "List"
IsScalarInit(n) ==
    /\ n.declarator.kind = "Identifier"
    /\ n.initializer # None
    /\ n.initializer[1].init = "Expression"

\* Its key in the value catalog, its elements, its expression.
Key == <<cur_struct, node[1].declarator.name>>
Elements == node[1].initializer[1].xs
ScalarExpr == node[1].initializer[1].e

\* The context tag is present and has a catalog entry; its field names.
TagKnown == cur_struct # None /\ cur_struct[1] \in DOMAIN struct_types
Fields == struct_types[cur_struct[1]].fields

\* The bindings the key holds before the visit (none when it is absent).
OldBindings == IF Key \in DOMAIN values THEN values[Key].values ELSE <<>>

\* C2: a list of k plain expressions, visited for the first time under a tag
\* with n fields, leaves a struct instance whose bindings are exactly the first
\* min(k, n) field names paired in order with the first min(k, n) simplified
\* elements, and no panic.
C2_PlainListZipsToShortest ==
    [][ (AtInitDeclarator /\ IsListInit(node[1]) /\ TagKnown /\ Key \notin DOMAIN values
            /\ \A i \in 1..Len(Elements) : Elements[i].initializer.init = "Expression")
        => /\ Key \in DOMAIN values'
           /\ values'[Key] =
                [variant |-> "Struct", typ |-> cur_struct[1], name |-> node[1].declarator.name,
                 values |-> [i \in 1..Min(Len(Elements), Len(Fields)) |->
                                <<Fields[i], transform(Elements[i].initializer.e)>>]]
           /\ panic' = NoPanic
           /\ pc' = "done" ]_vars

\* struct S has fields a, b, c and x = {1, .c = 2} was visited under S: a and b are bound, c is not.
C2_Witness ==
    /\ DoneInitDeclarator
    /\ node[1] = InitDeclarator(Identifier("x"),
                    Some(List(<<Item(<<>>, Expression(Dec("1"))),
                                Item(<<Member("c")>>, Expression(Dec("2")))>>)))
    /\ cur_struct = Some("S")
    /\ "S" \in DOMAIN struct_types
    /\ struct_types["S"].fields = <<"a", "b", "c">>
    /\ <<Some("S"), "x">> \in DOMAIN values
    /\ values[<<Some("S"), "x">>] =
          [variant |-> "Struct", typ |-> "S", name |-> "x",
           values |-> << <<"a", Integer("1")>>, <<"b", Integer("2")>> >>]

\* The leaf expressions of an initializer, depth first and left to right.
RECURSIVE Leaves(_)
Leaves(ini) ==
    IF ini.init = "Expression" THEN <<ini.e>>
    ELSE Concat([i \in 1..Len(ini.xs) |-> Leaves(ini.xs[i].initializer)])

\* Every leaf of the i-th top-level element bound to the i-th field name.
PositionalBindings(xs, fields) ==
    Concat([i \in 1..Min(Len(xs), Len(fields)) |->
              [j \in 1..Len(Leaves(xs[i].initializer)) |->
                  <<fields[i], transform(Leaves(xs[i].initializer)[j])>>]])

\* C3: a visited list appends, for its i-th top-level element, every leaf of
\* that element in depth-first left-to-right order, each under the i-th field
\* name; a nested group takes one field position.
C3_NestedLeavesShareOuterField ==
    [][ (AtInitDeclarator /\ IsListInit(node[1]) /\ TagKnown
            /\ (Key \in DOMAIN values => values[Key].variant = "Struct"))
        => /\ Key \in DOMAIN values'
           /\ values'[Key].variant = "Struct"
           /\ values'[Key].values = OldBindings \o PositionalBindings(Elements, Fields) ]_vars

\* x = {{3, {}, {.a = 4}}, 1} under S with fields a, b, c: 3 and 4 bound to a, 1 to b.
C3_Witness ==
    /\ DoneInitDeclarator
    /\ IsListInit(node[1])
    /\ Len(Elements) = 2
    /\ Elements[1].initializer.init = "List"
    /\ Elements[2] = Item(<<>>, Expression(Dec("1")))
    /\ TagKnown
    /\ Fields = <<"a", "b", "c">>
    /\ Key \in DOMAIN values
    /\ values[Key].variant = "Struct"
    /\ values[Key].values =
          << <<"a", Integer("3")>>, <<"a", Integer("4")>>, <<"b", Integer("1")>> >>

\* C4: a single-expression declarator leaves an existing entry under its key
\* as it is and inserts ScalarValue{name, simplify(e)} when the key is absent;
\* no other key changes, and no step ever changes a scalar entry.
C4_ScalarFirstWriteWins ==
    [][ /\ (AtInitDeclarator /\ IsScalarInit(node[1]))
            => /\ DOMAIN values' = DOMAIN values \cup {Key}
               /\ \A k \in DOMAIN values : values'[k] = values[k]
               /\ Key \notin DOMAIN values
                    => values'[Key] = [variant |-> "Scalar", name |-> node[1].declarator.name,
                                       value |-> transform(ScalarExpr)]
        /\ \A k \in DOMAIN values :
              values[k].variant = "Scalar" => k \in DOMAIN values' /\ values'[k] = values[k] ]_vars

\* x = 0x1Au was visited with no tag active while x already held 5: it still holds 5.
C4_Witness ==
    /\ DoneInitDeclarator
    /\ IsScalarInit(node[1])
    /\ ScalarExpr = ConstInteger("Hexadecimal", "1A", "u")
    /\ cur_struct = None
    /\ Key \in DOMAIN values
    /\ values[Key] = [variant |-> "Scalar", name |-> "x", value |-> Integer("5")]

\* C5: a list declarator visited while the context tag is present and has no
\* entry in the struct type catalog always ends the run with a panic, also
\* when its key is already in the value catalog.
C5_MissingTypeAlwaysAborts ==
    [][ (AtInitDeclarator /\ IsListInit(node[1])
            /\ cur_struct # None /\ cur_struct[1] \notin DOMAIN struct_types)
        => panic' # NoPanic ]_vars

\* C6: an init-declarator whose name is not a simple identifier ends the run
\* with the panic "Expected an identifier" and changes no catalog and not the
\* context; nothing runs after a panic.
C6_NonIdentifierDeclaratorAborts ==
    [][ /\ panic = NoPanic
        /\ (AtInitDeclarator /\ node[1].declarator.kind # "Identifier")
            => /\ panic' = ExpectedIdentifier
               /\ UNCHANGED <<struct_types, values, cur_struct, warnings>> ]_vars

\* (*p) = 5 was visited third, after x = 5 was recorded under S: the run has
\* panicked and the catalog still holds x alone.
C6_Witness ==
    /\ panic = ExpectedIdentifier
    /\ pc = "hook"
    /\ node[1] = InitDeclarator(ParenDeclarator, Some(Expression(Dec("5"))))
    /\ visits = 3
    /\ DOMAIN values = {<<Some("S"), "x">>}

\* The initializer list with every designation removed, at every depth.
RECURSIVE Undesignated(_)
Undesignated(xs) ==
    [i \in 1..Len(xs) |->
        Item(<<>>, IF xs[i].initializer.init = "List"
                   THEN List(Undesignated(xs[i].initializer.xs))
                   ELSE xs[i].initializer)]

\* C8: the bindings a visited list appends are those the same list appends
\* with all its designators removed: matching is by position alone.
C8_DesignatorsIgnored ==
    [][ (AtInitDeclarator /\ IsListInit(node[1]) /\ TagKnown
            /\ (Key \in DOMAIN values => values[Key].variant = "Struct"))
        => /\ Key \in DOMAIN values'
           /\ values'[Key].values =
                OldBindings \o fill_pairs(<<>>, zip(Undesignated(Elements), Fields)) ]_vars

\* x = {.c = 2, 1} under S with fields a, b, c: 2 is bound to a, not to c.
C8_Witness ==
    /\ DoneInitDeclarator
    /\ IsListInit(node[1])
    /\ Elements = <<Item(<<Member("c")>>, Expression(Dec("2"))), Item(<<>>, Expression(Dec("1")))>>
    /\ TagKnown
    /\ Fields = <<"a", "b", "c">>
    /\ Key \in DOMAIN values
    /\ values[Key].variant = "Struct"
    /\ values[Key].values = << <<"a", Integer("2")>>, <<"b", Integer("1")>> >>

\* The source text of a numeric constant: base prefix, digits, suffix.
BasePrefix(base) ==
    CASE base = "Decimal" -> ""
      [] base = "Octal" -> "0"
      [] base = "Hexadecimal" -> "0x"
      [] base = "Binary" -> "0b"
LexicalText(c) == BasePrefix(c.base) \o c.number \o c.suffix

\* out is the simplified form of expression e as section 4.2 describes it.
Simplifies(e, out) ==
    IF e.expr = "Constant" THEN
        CASE e.constant = "Integer" -> out = Integer(LexicalText(e))
          [] e.constant = "Float" -> out = Float(LexicalText(e))
          [] e.constant = "Character" -> out = String(e.text)
    ELSE IF e.expr = "StringLiteral" THEN out = StringLiteral(e.parts)
    ELSE out.variant = "Other" /\ out.s # ""

\* C9: the expression recorded for a first single-expression declaration is the
\* simplified form of its initializer: a numeric constant keeps its lexical text
\* unchanged, a character constant its text, a string literal its parts, and
\* any other form becomes Unrecognized with a non-empty text.
C9_SimplifyKeepsLexicalText ==
    [][ (AtInitDeclarator /\ IsScalarInit(node[1]) /\ Key \notin DOMAIN values)
        => /\ Key \in DOMAIN values'
           /\ values'[Key].variant = "Scalar"
           /\ Simplifies(ScalarExpr, values'[Key].value) ]_vars

\* C11: the context starts absent; a step changes it only by entering a struct
\* type node that carries a tag, and then to that tag; entering an untagged
\* node and every other step leave it as it is; once present it stays present.
C11_ContextIsLastEnteredTag ==
    /\ cur_struct = None
    /\ [][ /\ ((AtStructType /\ node[1].identifier # None)
                   => (cur_struct' = Some(node[1].identifier[1])))
            /\ ((~(AtStructType /\ node[1].identifier # None))
                   => (cur_struct' = cur_struct))
            /\ ((cur_struct # None) => (cur_struct' # None)) ]_vars

\* struct S {..} and then struct T were entered, and last an untagged struct: the context is still T.
C11_Witness ==
    /\ DoneStructType
    /\ node[1].identifier = None
    /\ visits = 3
    /\ cur_struct = Some("T")
    /\ "S" \in DOMAIN struct_types

\* The struct type nodes written inside node n and not handed to Walk: in the
\* type of a field declaration of a struct type node, or in the expression of
\* a declarator's initializer.
NestedStructTypes(n) ==
    IF n.node = "StructType"
    THEN UNION {{d.specifiers[i] : i \in 1..Len(d.specifiers)} :
                    d \in {FieldDeclarations(n)[j] : j \in 1..Len(FieldDeclarations(n))}}
    ELSE IF n.initializer # None /\ n.initializer[1].init = "Expression"
              /\ n.initializer[1].e.expr = "SizeOfTy"
         THEN {n.initializer[1].e.ty}
         ELSE {}

\* C12: a tagged struct type node nested in the visited node (in a field's
\* type, or in a declarator's initializer) is entered by the visit: after it
\* the context is that node's tag and the tag's catalog entry ends with the
\* node's simple-identifier field names.
C12_NestedStructTypesEntered ==
    [][ (pc = "hook")
        => \A m \in NestedStructTypes(node[1]) :
              (m.identifier # None /\ SimpleFieldNames(m) # <<>>)
              => /\ cur_struct' = m.identifier
                 /\ m.identifier[1] \in DOMAIN struct_types'
                 /\ LET fs == struct_types'[m.identifier[1]].fields
                        k == Len(SimpleFieldNames(m))
                    IN  /\ Len(fs) >= k
                        /\ SubSeq(fs, Len(fs) - k + 1, Len(fs)) = SimpleFieldNames(m) ]_vars

\* C13: visiting a variable declarator that carries no initializer, whatever
\* the shape of the declarator, changes neither catalog nor the context and
\* does not abort.
C13_NoInitializerNoEffect ==
    [][ (AtInitDeclarator /\ node[1].initializer = None)
        => /\ values' = values
           /\ struct_types' = struct_types
           /\ cur_struct' = cur_struct
           /\ panic' = NoPanic
           /\ pc' = "done" ]_vars

\* C14: a list visited under a key that already holds a struct instance keeps
\* the instance's bindings as a prefix and appends the list's flattened
\* bindings after them; no other key changes and the instance keeps its type
\* and name. Visiting the same declaration twice leaves its bindings twice.
C14_RevisitAppendsBindings ==
    [][ (AtInitDeclarator /\ IsListInit(node[1]) /\ Key \in DOMAIN values
            /\ values[Key].variant = "Struct")
        => /\ DOMAIN values' = DOMAIN values
           /\ \A k \in DOMAIN values \ {Key} : values'[k] = values[k]
           /\ values'[Key].typ = values[Key].typ
           /\ values'[Key].name = values[Key].name
           /\ Len(values'[Key].values) =
                  Len(values[Key].values) + Len(PositionalBindings(Elements, Fields))
           /\ SubSeq(values'[Key].values, 1, Len(values[Key].values)) = values[Key].values
           /\ SubSeq(values'[Key].values, Len(values[Key].values) + 1, Len(values'[Key].values))
                  = PositionalBindings(Elements, Fields)
           /\ panic' = NoPanic ]_vars

\* x = {1, .c = 2} was visited twice under S with fields a, b, c: its two bindings are there twice.
C14_Witness ==
    /\ DoneInitDeclarator
    /\ IsListInit(node[1])
    /\ Len(Elements) = 2
    /\ visits = 3
    /\ cur_struct = Some("S")
    /\ Key \in DOMAIN values
    /\ values[Key].variant = "Struct"
    /\ values[Key].values =
          << <<"a", Integer("1")>>, <<"b", Integer("2")>>,
             <<"a", Integer("1")>>, <<"b", Integer("2")>> >>

\* C15: entering a tagged struct type node whose tag already has a catalog
\* entry appends the node's simple-identifier field names once more after the
\* names recorded before; nothing is de-duplicated, and a list visited later
\* under the tag is paired with the list of names as it then stands.
C15_RevisitAppendsFieldNames ==
    [][ /\ ((AtStructType /\ node[1].identifier # None
                /\ node[1].identifier[1] \in DOMAIN struct_types)
             => /\ DOMAIN struct_types' = DOMAIN struct_types
                /\ \A t \in DOMAIN struct_types \ {node[1].identifier[1]} :
                       struct_types'[t] = struct_types[t]
                /\ struct_types'[node[1].identifier[1]].fields =
                       struct_types[node[1].identifier[1]].fields \o SimpleFieldNames(node[1]))
        /\ ((AtInitDeclarator /\ IsListInit(node[1]) /\ TagKnown /\ Key \notin DOMAIN values
                /\ \A i \in 1..Len(Elements) : Elements[i].initializer.init = "Expression")
             => /\ Len(values'[Key].values) = Min(Len(Elements), Len(Fields))
                /\ \A i \in 1..Min(Len(Elements), Len(Fields)) :
                       values'[Key].values[i][1] = Fields[i]) ]_vars

\* struct T { int a; } was entered twice, then x = {1, .c = 2}: T has fields
\* a, a and both elements are bound to a.
C15_Witness ==
    /\ DoneInitDeclarator
    /\ IsListInit(node[1])
    /\ cur_struct = Some("T")
    /\ TagKnown
    /\ Fields = <<"a", "a">>
    /\ Key \in DOMAIN values
    /\ values[Key].variant = "Struct"
    /\ values[Key].values = << <<"a", Integer("1")>>, <<"a", Integer("2")>> >>

\* Sequence a is an initial part of sequence b.
IsPrefix(a, b) == Len(a) <= Len(b) /\ SubSeq(b, 1, Len(a)) = a

\* C16: no step removes a key from either catalog; a struct type's fields
\* before the step are a prefix of its fields after it; a struct instance's
\* bindings before the step are a prefix of its bindings after it; a scalar
\* entry does not change; no entry changes variant.
C16_CatalogsOnlyGrow ==
    [][ /\ DOMAIN struct_types \subseteq DOMAIN struct_types'
        /\ \A t \in DOMAIN struct_types :
              /\ struct_types'[t].name = struct_types[t].name
              /\ IsPrefix(struct_types[t].fields, struct_types'[t].fields)
        /\ DOMAIN values \subseteq DOMAIN values'
        /\ \A k \in DOMAIN values :
              /\ values'[k].variant = values[k].variant
              /\ values[k].variant = "Scalar" => values'[k] = values[k]
              /\ values[k].variant = "Struct"
                    => /\ values'[k].typ = values[k].typ
                       /\ values'[k].name = values[k].name
                       /\ IsPrefix(values[k].values, values'[k].values) ]_vars

\* A tag whose entry held names before has been entered again and holds more
\* names than the node declares, next to a value recorded in between.
C16_Witness ==
    /\ DoneStructType
    /\ visits = 3
    /\ TagKnown
    /\ node[1].identifier = cur_struct
    /\ SimpleFieldNames(node[1]) # <<>>
    /\ Len(Fields) > Len(SimpleFieldNames(node[1]))
    /\ DOMAIN values # {}

\* C17: every value catalog entry agrees with its key (t, n): a scalar entry
\* is named n; a struct instance has t present, its type name is t, its
\* instance name is n, and every field name among its bindings is one of the
\* fields the struct type catalog holds for its type name.
C17_ValueCatalogWellFormed ==
    \A k \in DOMAIN values :
        /\ values[k].name = k[2]
        /\ values[k].variant = "Struct"
              => /\ k[1] # None
                 /\ values[k].typ = k[1][1]
                 /\ \A i \in 1..Len(values[k].values) :
                        /\ values[k].typ \in DOMAIN struct_types
                        /\ \E j \in 1..Len(struct_types[values[k].typ].fields) :
                               struct_types[values[k].typ].fields[j] = values[k].values[i][1]

\* A scalar recorded before any tag and a struct instance with bindings under a tag.
C17_Witness ==
    /\ pc = "done"
    /\ \E k \in DOMAIN values : k[1] = None /\ values[k].variant = "Scalar"
    /\ \E k \in DOMAIN values :
          /\ values[k].variant = "Struct"
          /\ Len(values[k].values) >= 2
          /\ values[k].values[1][1] # values[k].values[2][1]

\* C18: a declarator initialized with a list and visited while no tag is
\* active is ignored: no value entry is created or changed, the struct type
\* catalog and the context stay as they are, nothing is warned and nothing aborts.
C18_ListWithoutTagIgnored ==
    [][ (AtInitDeclarator /\ IsListInit(node[1]) /\ cur_struct = None)
        => /\ values' = values
           /\ struct_types' = struct_types
           /\ cur_struct' = None
           /\ warnings' = warnings
           /\ panic' = NoPanic
           /\ pc' = "done" ]_vars

\* x = 5 and then x = {1, .c = 2} were visited before any tagged struct type:
\* the catalog holds the scalar alone.
C18_Witness ==
    /\ DoneInitDeclarator
    /\ IsListInit(node[1])
    /\ Len(Elements) = 2
    /\ cur_struct = None
    /\ panic = NoPanic
    /\ DOMAIN values = {<<None, "x">>}
    /\ values[<<None, "x">>].variant = "Scalar"

\* C19: every struct type catalog entry is stored under its own tag name and
\* has at least one field; a tag for which no simple-identifier field was
\* recorded has no entry.
C19_StructTypeCatalogWellFormed ==
    \A t \in DOMAIN struct_types :
        /\ struct_types[t].name = t
        /\ struct_types[t].fields # <<>>

\* A tagged struct whose field declarations hold no simple-identifier
\* declarator was entered: the context is its tag and the catalog is empty.
C19_Witness ==
    /\ DoneStructType
    /\ node[1].identifier # None
    /\ cur_struct = node[1].identifier
    /\ FieldDeclarations(node[1]) # <<>>
    /\ SimpleFieldNames(node[1]) = <<>>
    /\ struct_types = EmptyMap

====
